---------------------------- MODULE Spec2Model ----------------------------
(***************************************************************************)
(* A model of the RAG chatbot: the document processor                      *)
(* (src/document_processor.py), the retrieval and answer engine            *)
(* (src/chatbot.py) and the session handling of the page (src/app.py).     *)
(*                                                                         *)
(* A Python str is a sequence of one-character strings; the string         *)
(* methods and regular expressions the code uses are operators on such     *)
(* sequences.  An object is a record of the attributes it has.  None is   *)
(* Python's None; where a str is expected it is written NoStr.            *)
(***************************************************************************)
EXTENDS Integers, Sequences, FiniteSets, TLC

None == [none |-> TRUE]
NoStr == <<"None">>
NoChunks == <<NoStr>>

Min(S) == CHOOSE x \in S : \A y \in S : x <= y
Max(S) == CHOOSE x \in S : \A y \in S : x >= y
min(a, b) == IF a <= b THEN a ELSE b

(***************************************************************************)
(* Python str and re primitives                                            *)
(***************************************************************************)
UpperCase == <<"A","B","C","D","E","F","G","H","I","J","K","L","M","N","O","P","Q","R","S","T","U",
      "V","W","X","Y","Z">>
LowerCase == <<"a","b","c","d","e","f","g","h","i","j","k","l","m","n","o","p","q","r","s","t","u",
      "v","w","x","y","z">>
Digits == {"0", "1", "2", "3", "4", "5", "6", "7", "8", "9"}
Whitespace == {" ", "\t", "\n"}
Terminators == {".", "!", "?"}

\* the three characters of the bullet literal at chatbot.py:142
BulletGlyph == <<"U+00E2", "U+20AC", "U+00A2">>

\* isinstance(x, str)
is_str(x) == x # NoStr

LowerOf == [c \in {UpperCase[i] : i \in 1..26} |->
              LowerCase[CHOOSE i \in 1..26 : UpperCase[i] = c]]

lower_char(c) == IF c \in DOMAIN LowerOf THEN LowerOf[c] ELSE c

\* str.lower()
lower(s) == [i \in 1..Len(s) |-> lower_char(s[i])]

\* s[:n]
slice_to(s, n) == SubSeq(s, 1, min(n, Len(s)))

\* str.strip()
strip(s) ==
  LET ink == {i \in 1..Len(s) : s[i] \notin Whitespace}
  IN  IF ink = {} THEN <<>> ELSE SubSeq(s, Min(ink), Max(ink))

\* sub in s
occurs_at(sub, s, i) == \A j \in 1..Len(sub) : s[i + j - 1] = sub[j]

contains(sub, s) == \E i \in 1..(Len(s) - Len(sub) + 1) : occurs_at(sub, s, i)

\* s.startswith(p)
startswith(s, p) == Len(s) >= Len(p) /\ occurs_at(p, s, 1)

\* s.endswith(('.', '!', '?'))
ends_with_terminator(s) == s # <<>> /\ s[Len(s)] \in Terminators

RECURSIVE join(_, _)
\* sep.join(parts)
join(parts, sep) ==
  IF parts = <<>> THEN <<>>
  ELSE IF Len(parts) = 1 THEN parts[1]
  ELSE parts[1] \o sep \o join(Tail(parts), sep)

RECURSIVE split_ws(_)
\* s.split(): the maximal runs of non-whitespace
split_ws(s) ==
  LET ink == {i \in 1..Len(s) : s[i] \notin Whitespace}
  IN  IF ink = {} THEN <<>>
      ELSE LET b == Min(ink)
               ends == {i \in b..Len(s) : s[i] \in Whitespace}
               e == IF ends = {} THEN Len(s) ELSE Min(ends) - 1
           IN  <<SubSeq(s, b, e)>> \o split_ws(SubSeq(s, e + 1, Len(s)))

RECURSIVE split(_, _)
\* s.split(sep) for a non-empty separator
split(s, sep) ==
  LET hits == {i \in 1..(Len(s) - Len(sep) + 1) : occurs_at(sep, s, i)}
  IN  IF hits = {} THEN <<s>>
      ELSE LET i == Min(hits)
           IN  <<SubSeq(s, 1, i - 1)>> \o split(SubSeq(s, i + Len(sep), Len(s)), sep)

RECURSIVE re_split(_)
\* re.split(r'[.!?]+', s): leading and trailing empty pieces are kept
re_split(s) ==
  LET hits == {i \in 1..Len(s) : s[i] \in Terminators}
  IN  IF hits = {} THEN <<s>>
      ELSE LET i == Min(hits)
               rest == {j \in i..Len(s) : s[j] \notin Terminators}
               e == IF rest = {} THEN Len(s) ELSE Min(rest) - 1
           IN  <<SubSeq(s, 1, i - 1)>> \o re_split(SubSeq(s, e + 1, Len(s)))

\* re.sub(r'\s+', ' ', s)
collapse_ws(s) ==
  LET keep == SelectSeq([i \in 1..Len(s) |-> i],
                        LAMBDA i : ~(s[i] \in Whitespace /\ i > 1 /\ s[i-1] \in Whitespace))
  IN  [j \in 1..Len(keep) |-> IF s[keep[j]] \in Whitespace THEN " " ELSE s[keep[j]]]

\* re.match(r'^[0-9]+\.', s)
re_match_numbered(s) ==
  \E n \in 1..(Len(s) - 1) : (\A i \in 1..n : s[i] \in Digits) /\ s[n+1] = "."

\* [x.strip() for x in xs]
strip_each(xs) == [i \in 1..Len(xs) |-> strip(xs[i])]

\* any(w in s for w in words)
any_in(words, s) == \E i \in 1..Len(words) : contains(words[i], s)

(***************************************************************************)
(* ChatBot._keyword_search_with_context                                    *)
(***************************************************************************)
\* chatbot.py:62
query_words_of(query_lower) == SelectSeq(split_ws(query_lower), LAMBDA w : Len(w) > 2)

\* chatbot.py:65-66
sentences_of(full_text) ==
  SelectSeq(strip_each(re_split(full_text)), LAMBDA x : x # <<>>)

\* chatbot.py:80, the second phrase of the bonus test
two_word_phrase(query_words) == join(slice_to(query_words, 2), <<" ">>)

\* chatbot.py:72-81, the score of one sentence
sentence_score(sentence, query_lower) ==
  LET query_words == query_words_of(query_lower)
      sentence_lower == lower(sentence)
      hits == Cardinality({w \in 1..Len(query_words) :
                             contains(query_words[w], sentence_lower)})
      bonus == IF contains(query_lower, sentence_lower)
                  \/ contains(two_word_phrase(query_words), sentence_lower)
               THEN 2 ELSE 0
  IN  hits + bonus

\* chatbot.py:69-83, idx counts from 0 as enumerate does
sentence_scores(query_lower, full_text) ==
  LET sentences == sentences_of(full_text)
  IN  [i \in 1..Len(sentences) |->
         [score |-> sentence_score(sentences[i], query_lower),
          idx |-> i - 1,
          sentence |-> sentences[i]]]

\* insert_sorted with an unstable sort: x goes before the elements of equal score
insert_sorted_unstable(sorted, x) ==
  LET before == {j \in 1..Len(sorted) : sorted[j].score > x.score}
      p == IF before = {} THEN 0 ELSE Max(before)
  IN  SubSeq(sorted, 1, p) \o <<x>> \o SubSeq(sorted, p + 1, Len(sorted))

\* where list.sort(reverse=True, key=score) puts x among the already sorted:
\* after every element whose score is not smaller (the sort is stable)
insert_sorted(sorted, x) ==
  LET before == {j \in 1..Len(sorted) : sorted[j].score >= x.score}
      p == IF before = {} THEN 0 ELSE Max(before)
  IN  SubSeq(sorted, 1, p) \o <<x>> \o SubSeq(sorted, p + 1, Len(sorted))

RECURSIVE sort_scores(_)
\* chatbot.py:86
sort_scores(scores) ==
  IF scores = <<>> THEN <<>>
  ELSE insert_sorted(sort_scores(SubSeq(scores, 1, Len(scores) - 1)),
                     scores[Len(scores)])

\* chatbot.py:91-107, what one iteration of the loop adds to relevant_sentences
context_sentences(entry, sentences, query_words, relevant_sentences) ==
  IF entry.score > 0
  THEN (IF entry.idx > 0 /\ Len(relevant_sentences) = 0
        THEN <<sentences[entry.idx]>> ELSE <<>>)
       \o <<entry.sentence>>
       \o (IF entry.idx < Len(sentences) - 1
              /\ any_in(query_words, lower(sentences[entry.idx + 2]))
           THEN <<sentences[entry.idx + 2]>> ELSE <<>>)
  ELSE <<>>

RECURSIVE gather(_, _, _, _)
\* chatbot.py:89-107, the loop over sentence_scores[:3]
gather(top, sentences, query_words, relevant_sentences) ==
  IF top = <<>> THEN relevant_sentences
  ELSE gather(Tail(top), sentences, query_words,
              relevant_sentences
                \o context_sentences(Head(top), sentences, query_words, relevant_sentences))

\* chatbot.py:90-91, the idx of the sentences the loop takes, in the order taken
selected_of(query_lower, full_text) ==
  LET top == slice_to(sort_scores(sentence_scores(query_lower, full_text)), 3)
      taken == SelectSeq(top, LAMBDA entry : entry.score > 0)
  IN  [r \in 1..Len(taken) |-> taken[r].idx]

\* chatbot.py:89-107
relevant_sentences_of(query_lower, full_text) ==
  gather(slice_to(sort_scores(sentence_scores(query_lower, full_text)), 3),
         sentences_of(full_text), query_words_of(query_lower), <<>>)

\* chatbot.py:58-113
_keyword_search_with_context(query_lower, full_text) ==
  LET relevant_sentences == relevant_sentences_of(query_lower, full_text)
  IN  IF relevant_sentences = <<>>
      THEN slice_to(full_text, 1000)
      ELSE join(slice_to(relevant_sentences, 4), <<"."," ">>) \o <<".">>

(***************************************************************************)
(* ChatBot._format_answer and the extractors                               *)
(***************************************************************************)
\* chatbot.py:198-212
_clean_content(content) ==
  LET c1 == strip(collapse_ws(content))
      c2 == IF c1 # <<>> /\ ~ends_with_terminator(c1) THEN c1 \o <<".">> ELSE c1
  IN  IF Len(c2) > 500
      THEN join(slice_to(re_split(c2), 3), <<"."," ">>) \o <<".">>
      ELSE c2

\* chatbot.py:149-150, f"- {item.strip()}" for each item
bullets_of(items) == [i \in 1..Len(items) |-> <<"-"," ">> \o strip(items[i])]

\* list_items_of_line taking the "include" branch without asking for a colon
list_items_of_line_no_colon(raw_line, query) ==
  LET line == strip(raw_line)
  IN  IF re_match_numbered(line) \/ startswith(line, <<"-">>) \/ startswith(line, BulletGlyph)
      THEN <<line>>
      ELSE IF any_in(<<<<"t","y","p","e","s">>, <<"a","p","p","l","i","c","a","t","i","o","n","s">>>>, query)
              /\ contains(<<"i","n","c","l","u","d","e">>, lower(line))
              /\ Len(split(line, <<"i","n","c","l","u","d","e">>)) > 1
           THEN bullets_of(split(split(line, <<"i","n","c","l","u","d","e">>)[2], <<",">>))
           ELSE <<>>

\* chatbot.py:141-150, the items one line contributes
list_items_of_line(raw_line, query) ==
  LET line == strip(raw_line)
  IN  IF re_match_numbered(line) \/ startswith(line, <<"-">>) \/ startswith(line, BulletGlyph)
      THEN <<line>>
      ELSE IF contains(<<":">>, line)
              /\ any_in(<<<<"t","y","p","e","s">>, <<"a","p","p","l","i","c","a","t","i","o","n","s">>>>, query)
              /\ contains(<<"i","n","c","l","u","d","e">>, lower(line))
              /\ Len(split(line, <<"i","n","c","l","u","d","e">>)) > 1
           THEN bullets_of(split(split(line, <<"i","n","c","l","u","d","e">>)[2], <<",">>))
           ELSE <<>>

RECURSIVE concat(_)
concat(seqs) == IF seqs = <<>> THEN <<>> ELSE Head(seqs) \o concat(Tail(seqs))

\* chatbot.py:136-150
list_items_of(content, query) ==
  LET lines == split(content, <<"\n">>)
  IN  concat([i \in 1..Len(lines) |-> list_items_of_line(lines[i], query)])

\* chatbot.py:134-161
_extract_list_format(content, query) ==
  LET list_items == list_items_of(content, query)
      sentences == re_split(content)
      found == {i \in 1..Len(sentences) :
                  contains(<<",">>, sentences[i])
                  /\ any_in(<<<<"i","n","c","l","u","d","e">>, <<"a","r","e">>>>, lower(sentences[i]))}
  IN  IF list_items # <<>> THEN join(list_items, <<"\n">>)
      ELSE IF found # {} THEN strip(sentences[Min(found)])
      ELSE _clean_content(content)

\* chatbot.py:163-181
_extract_definition(content, query) ==
  LET sentences == re_split(content)
      defining == {i \in 1..Len(sentences) :
                     LET sentence == strip(sentences[i])
                     IN  (contains(<<" ","i","s"," ">>, lower(sentence))
                            \/ contains(<<" ","a","r","e"," ">>, lower(sentence)))
                         /\ Len(sentence) > 20
                         /\ ~startswith(lower(sentence), <<"t","h","e","r","e">>)}
      substantial == {i \in 1..Len(sentences) : Len(strip(sentences[i])) > 30}
  IN  IF defining # {} THEN strip(sentences[Min(defining)]) \o <<".">>
      ELSE IF substantial # {} THEN strip(sentences[Min(substantial)]) \o <<".">>
      ELSE _clean_content(content)

ProcessWords == <<<<"p","r","o","c","e","s","s">>, <<"m","e","t","h","o","d">>, <<"w","o","r","k">>, <<"f","u","n","c","t","i","o","n">>, <<"o","p","e","r","a","t","e">>>>

\* chatbot.py:183-196
_extract_process(content) ==
  LET relevant == SelectSeq(strip_each(re_split(content)),
                            LAMBDA x : any_in(ProcessWords, lower(x)))
  IN  IF relevant # <<>>
      THEN join(slice_to(relevant, 2), <<"."," ">>) \o <<".">>
      ELSE _clean_content(content)

ListWords == <<<<"t","y","p","e","s">>, <<"l","i","s","t">>, <<"a","p","p","l","i","c","a","t","i","o","n","s">>, <<"k","i","n","d","s">>, <<"e","x","a","m","p","l","e","s">>>>
DefinitionWords == <<<<"w","h","a","t"," ","i","s">>, <<"d","e","f","i","n","e">>, <<"d","e","f","i","n","i","t","i","o","n">>, <<"m","e","a","n","i","n","g">>>>

\* chatbot.py:117-132, the branch _format_answer takes
intent_of(query) ==
  LET query_lower == lower(query)
  IN  IF any_in(ListWords, query_lower) THEN "list"
      ELSE IF any_in(DefinitionWords, query_lower) THEN "definition"
      ELSE IF startswith(query_lower, <<"h","o","w">>) THEN "process"
      ELSE "generic"

\* chatbot.py:115-132
_format_answer(query, content) ==
  LET branch == intent_of(query)
  IN  IF branch = "list" THEN _extract_list_format(content, lower(query))
      ELSE IF branch = "definition" THEN _extract_definition(content, lower(query))
      ELSE IF branch = "process" THEN _extract_process(content)
      ELSE _clean_content(content)

(***************************************************************************)
(* The embedding provider and the vector index (sentence_transformers and  *)
(* faiss, seen through the calls chatbot.py makes).  The provider is a     *)
(* function of its input: an embedding_model is fixed by how it weighs a   *)
(* text and by which inputs make encode raise.                             *)
(***************************************************************************)
Encoders ==
  { [weights |-> "length", rejects |-> "nothing"],
    [weights |-> "spaces", rejects |-> "nothing"],
    [weights |-> "length", rejects |-> "everything"],
    [weights |-> "length", rejects |-> "question marks"] }

\* SentenceTransformer('all-MiniLM-L6-v2') either yields a model or raises
LoadError == [failed |-> "model could not be loaded"]
LoadOutcomes == Encoders \cup {LoadError}

embedding_of(model, t) ==
  IF model.weights = "length" THEN <<Len(t)>>
  ELSE <<Cardinality({i \in 1..Len(t) : t[i] = " "})>>

encode_rejects(model, t) ==
  \/ model.rejects = "everything"
  \/ model.rejects = "question marks" /\ contains(<<"?">>, t)

\* embedding_model.encode(texts)
encode(model, texts) ==
  IF \E i \in 1..Len(texts) : encode_rejects(model, texts[i])
  THEN [raised |-> TRUE]
  ELSE [raised |-> FALSE, value |-> [i \in 1..Len(texts) |-> embedding_of(model, texts[i])]]

RECURSIVE squared_l2(_, _)
squared_l2(a, b) ==
  IF a = <<>> THEN 0
  ELSE (a[1] - b[1]) * (a[1] - b[1]) + squared_l2(Tail(a), Tail(b))

\* faiss.IndexFlatL2.search: the ids (from 0) of the k nearest vectors, nearest
\* first, the lower id first among equally distant ones
index_search(index, query_embedding, k) ==
  LET n == Len(index.vectors)
      d(i) == squared_l2(index.vectors[i], query_embedding)
      before(i, j) == d(i) < d(j) \/ (d(i) = d(j) /\ i < j)
      rank(i) == Cardinality({j \in 1..n : before(j, i)}) + 1
  IN  [r \in 1..min(k, n) |-> (CHOOSE i \in 1..n : rank(i) = r) - 1]

(***************************************************************************)
(* ChatBot: the object is the record of the attributes set so far.  A call *)
(* yields [raised, value]: raised when an exception leaves it.             *)
(***************************************************************************)
returns(v) == [raised |-> FALSE, value |-> v]
raises(e) == [raised |-> TRUE, value |-> e]

\* chatbot.py:13-14
new_chatbot(document_chunks) ==
  [document_chunks |-> document_chunks,
   full_text |-> join(document_chunks, <<" ">>)]

\* self.name = value
setattr(self, name, value) == (name :> value) @@ self

\* hasattr(self, name)
hasattr(self, name) == name \in DOMAIN self

\* chatbot.py:25-36
_create_vector_store(self) ==
  LET embeddings == encode(self.embedding_model, self.document_chunks)
  IN  IF embeddings.raised
      THEN returns(setattr(self, "use_vector_search", FALSE))
      ELSE returns(setattr(setattr(self, "index", [vectors |-> embeddings.value]),
                           "use_vector_search", TRUE))

\* init_vector_search building the index for a single chunk too
init_vector_search_single(self) ==
  IF Len(self.document_chunks) >= 1
  THEN _create_vector_store(self)
  ELSE returns(setattr(self, "use_vector_search", FALSE))

\* chatbot.py:19-23
init_vector_search(self) ==
  IF Len(self.document_chunks) > 1
  THEN _create_vector_store(self)
  ELSE returns(setattr(self, "use_vector_search", FALSE))

\* chatbot.py:47-51, the body of the try
vector_search(self, query) ==
  LET query_embedding == encode(self.embedding_model, <<query>>)
      k == min(3, Len(self.document_chunks))
  IN  IF query_embedding.raised THEN raises("encode")
      ELSE LET indices == index_search(self.index, query_embedding.value[1], k)
           IN  returns(join([r \in 1..Len(indices) |-> self.document_chunks[indices[r] + 1]],
                            <<" ">>))

\* _find_relevant_content letting the exception of the vector branch out
_find_relevant_content_no_fallback(self, query) ==
  IF ~is_str(query) THEN raises("AttributeError")
  ELSE IF hasattr(self, "use_vector_search") /\ self.use_vector_search
       THEN vector_search(self, query)
       ELSE returns(_keyword_search_with_context(lower(query), self.full_text))

\* chatbot.py:38-56: query.lower() fails on a question that is no str; an
\* exception in the vector branch is passed over and keyword search answers
_find_relevant_content(self, query) ==
  IF ~is_str(query) THEN raises("AttributeError")
  ELSE IF /\ hasattr(self, "use_vector_search")
          /\ self.use_vector_search
          /\ ~vector_search(self, query).raised
       THEN vector_search(self, query)
       ELSE returns(_keyword_search_with_context(lower(query), self.full_text))

Apology ==
  <<"I"," ","c","o","u","l","d","n","'","t"," ","f","i","n","d"," ","r","e","l","e","v",
      "a","n","t"," ","i","n","f","o","r","m","a","t","i","o","n"," ","t","o"," ","a","n",
      "s","w","e","r"," ","y","o","u","r"," ","q","u","e","s","t","i","o","n","."," ","T",
      "r","y"," ","r","e","p","h","r","a","s","i","n","g"," ","o","r"," ","a","s","k","i",
      "n","g"," ","a","b","o","u","t"," ","d","i","f","f","e","r","e","n","t"," ","a","s",
      "p","e","c","t","s"," ","o","f"," ","t","h","e"," ","d","o","c","u","m","e","n","t",
      ".">>
ErrorMessage ==
  <<"I"," ","e","n","c","o","u","n","t","e","r","e","d"," ","a","n"," ","e","r","r","o",
      "r"," ","w","h","i","l","e"," ","p","r","o","c","e","s","s","i","n","g"," ","y","o",
      "u","r"," ","q","u","e","s","t","i","o","n","."," ","P","l","e","a","s","e"," ","t",
      "r","y"," ","a","g","a","i","n"," ","w","i","t","h"," ","a"," ","d","i","f","f","e",
      "r","e","n","t"," ","q","u","e","s","t","i","o","n",".">>

\* get_response without the guard of chatbot.py:224-225
get_response_unguarded(self, question) ==
  LET relevant_content == _find_relevant_content(self, question)
  IN  IF relevant_content.raised
      THEN [raised |-> FALSE, value |-> ErrorMessage, self |-> self,
            exception |-> TRUE, content |-> NoStr, synthesized |-> NoStr]
      ELSE LET answer == _format_answer(question, relevant_content.value)
           IN  [raised |-> FALSE, value |-> answer, self |-> self,
                exception |-> FALSE, content |-> relevant_content.value,
                synthesized |-> answer]

\* get_response switching vector search off once the vector branch has failed
get_response_remembering(self, question) ==
  LET relevant_content == _find_relevant_content(self, question)
      failed == /\ is_str(question)
                /\ hasattr(self, "use_vector_search")
                /\ self.use_vector_search
                /\ vector_search(self, question).raised
      after == IF failed THEN setattr(self, "use_vector_search", FALSE) ELSE self
  IN  IF relevant_content.raised
      THEN [raised |-> FALSE, value |-> ErrorMessage, self |-> after,
            exception |-> TRUE, content |-> NoStr, synthesized |-> NoStr]
      ELSE LET answer == _format_answer(question, relevant_content.value)
           IN  [raised |-> FALSE,
                value |-> IF answer = <<>> \/ Len(strip(answer)) < 5 THEN Apology ELSE answer,
                self |-> after,
                exception |-> FALSE,
                content |-> relevant_content.value,
                synthesized |-> answer]

\* chatbot.py:214-231; self is the object as the call leaves it
get_response(self, question) ==
  LET relevant_content == _find_relevant_content(self, question)
  IN  IF relevant_content.raised
      THEN [raised |-> FALSE, value |-> ErrorMessage, self |-> self,
            exception |-> TRUE, content |-> NoStr, synthesized |-> NoStr]
      ELSE LET answer == _format_answer(question, relevant_content.value)
           IN  [raised |-> FALSE,
                value |-> IF answer = <<>> \/ Len(strip(answer)) < 5 THEN Apology ELSE answer,
                self |-> self,
                exception |-> FALSE,
                content |-> relevant_content.value,
                synthesized |-> answer]

(***************************************************************************)
(* DocumentProcessor                                                       *)
(***************************************************************************)
chunk_size == 200
SupportedExtensions == {<<"p","d","f">>, <<"d","o","c","x">>, <<"t","x","t">>}

\* document_processor.py:52
extension_of(file_path) ==
  LET parts == split(file_path, <<".">>) IN lower(parts[Len(parts)])

\* document_processor.py:16-48: the three extractors read the file and pass on
\* whatever the reader raises
extract_text(file) ==
  IF file.readable
  THEN returns(file.text)
  ELSE raises([type |-> "Exception", where |-> "extract_text"])

\* RecursiveCharacterTextSplitter.split_text (document_processor.py:10-15, 68)
\* for the texts of this model: a text within chunk_size is one chunk; a longer
\* one is made of paragraphs that are each longer than chunk_size / 2 (and than
\* chunk_overlap = 50), so that no two of them fit one chunk and none is
\* carried over as overlap.
split_text(t) ==
  IF Len(t) <= chunk_size
  THEN SelectSeq(<<strip(t)>>, LAMBDA c : c # <<>>)
  ELSE SelectSeq(strip_each(split(t, <<"\n","\n">>)), LAMBDA c : c # <<>>)

(***************************************************************************)
(* The documents and questions of the model                                *)
(***************************************************************************)
Solar ==
  <<"S","o","l","a","r"," ","p","a","n","e","l","s"," ","c","o","n","v","e","r","t"," ",
      "s","u","n","l","i","g","h","t"," ","i","n","t","o"," ","e","l","e","c","t","r","i",
      "c","i","t","y","."," ","C","o","m","m","o","n"," ","t","y","p","e","s"," ","i","n",
      "c","l","u","d","e"," ","m","o","n","o","c","r","y","s","t","a","l","l","i","n","e",
      ","," ","p","o","l","y","c","r","y","s","t","a","l","l","i","n","e",","," ","a","n",
      "d"," ","t","h","i","n","-","f","i","l","m"," ","p","a","n","e","l","s",".">>
SolarQuestion == <<"W","h","a","t"," ","t","y","p","e","s"," ","o","f"," ","s","o","l","a","r"," ","p",
      "a","n","e","l","s"," ","a","r","e"," ","t","h","e","r","e","?">>

CatsParagraph ==
  <<"C","a","t","s"," ","a","r","e"," ","s","m","a","l","l"," ","a","n","i","m","a","l",
      "s"," ","t","h","a","t"," ","l","i","v","e"," ","w","i","t","h"," ","p","e","o","p",
      "l","e"," ","i","n"," ","h","o","u","s","e","s","."," ","C","a","t","s"," ","p","u",
      "r","r"," ","w","h","e","n"," ","t","h","e","y"," ","a","r","e"," ","p","l","e","a",
      "s","e","d"," ","a","n","d"," ","t","h","e","y"," ","s","l","e","e","p"," ","a"," ",
      "l","o","t",".">>
DogsParagraph ==
  <<"D","o","g","s"," ","w","o","r","k"," ","a","s"," ","g","u","a","r","d","s"," ","a",
      "n","d"," ","a","s"," ","g","u","i","d","e","s","."," ","A"," ","d","o","g"," ","i",
      "s"," ","a"," ","l","o","y","a","l"," ","a","n","i","m","a","l"," ","t","h","a","t",
      " ","l","i","k","e","s"," ","t","o"," ","p","l","a","y"," ","a","n","d"," ","t","o",
      " ","w","a","l","k"," ","w","i","t","h"," ","i","t","s"," ","o","w","n","e","r"," ",
      "d","a","i","l","y",".">>
Pets == CatsParagraph \o <<"\n","\n">> \o DogsParagraph

\* what a file holds: the text its reader yields, or nothing readable
Contents ==
  { [readable |-> TRUE, text |-> Solar],
    [readable |-> TRUE, text |-> Pets],
    [readable |-> TRUE, text |-> <<"H","i">>],
    [readable |-> TRUE, text |-> <<" ","\n","\t"," ">>],
    [readable |-> TRUE, text |-> <<>>],
    [readable |-> FALSE, text |-> NoStr] }

\* paths process_document is called with
Paths ==
  { <<"/","d","a","t","a","/","s","o","l","a","r",".","t","x","t">>, <<"/","d","a","t","a","/","p","e","t","s",".","P","D","F">>, <<"/","d","a","t","a","/","n","o","t","e","s",".","D","o","c","x">>,
    <<"/","d","a","t","a","/","t","a","b","l","e",".","c","s","v">>, <<"/","d","a","t","a","/","R","E","A","D","M","E">>, <<"/","d","a","t","a","/","o","l","d",".","t","x","t",".","b","a","k">>,
    <<"/","d","a","t","a","/","v","1",".","2","/","n","o","t","e","s">> }

\* files offered to the page: file_uploader admits pdf, docx and txt (app.py:35)
Uploads ==
  { [name |-> <<"s","o","l","a","r",".","t","x","t">>, content |-> [readable |-> TRUE, text |-> Solar]],
    [name |-> <<"m","y",".","p","e","t","s",".","P","D","F">>, content |-> [readable |-> TRUE, text |-> Pets]],
    [name |-> <<"b","l","a","n","k",".","d","o","c","x">>, content |-> [readable |-> TRUE, text |-> <<" ","\n","\t"," ">>]],
    [name |-> <<"t","o","r","n",".","p","d","f">>, content |-> [readable |-> FALSE, text |-> NoStr]] }

\* questions typed into the page: st.chat_input yields a str
Prompts == { SolarQuestion, <<"h","o","w"," ","d","o"," ","d","o","g","s"," ","w","o","r","k">>, <<"h","i">> }

\* chunk sequences a ChatBot is constructed from directly
ChunkSequences ==
  { <<>>,
    <<Solar>>,
    <<<<"H","i">>>>,
    <<<<"C","a","t","s"," ","p","u","r","r"," ","a","n","d"," ","s","l","e","e","p"," ","a",
      " ","l","o","t",".">>, <<"D","o","g","s"," ","w","o","r","k"," ","a","s"," ","g","u","a","r","d","s",".">>>>,
    <<<<"C","a","t","s"," ","p","u","r","r",".">>, <<"D","o","g","s"," ","w","o","r","k"," ","h","a","r","d"," ","a","s"," ","g","u","a",
      "r","d","s",".">>, <<"B","i","r","d","s"," ","s","i","n","g">>,
      <<"F","i","s","h"," ","s","w","i","m"," ","i","n"," ","t","h","e"," ","s","e","a"," ",
      "a","l","l"," ","d","a","y","?"," ","Y","e","s",".">>>> }

\* questions get_response is called with directly; NoStr is a question that is
\* no str
Questions == { SolarQuestion, <<"h","o","w"," ","d","o"," ","d","o","g","s"," ","w","o","r","k">>, NoStr }

\* sentences the texts given to keyword retrieval are made of
PureSentences == << <<"C","a","t","s"," ","p","u","r","r",".">>, <<"D","o","g","s"," ","b","a","r","k"," ","a","t"," ","c","a","t","s","!">>, <<"B","i","r","d","s"," ","s","i","n","g",".">> >>

RECURSIVE sequences_upto(_, _)
\* the sequences of at most n elements of 1..m
sequences_upto(n, m) ==
  IF n = 0 THEN {<<>>}
  ELSE LET shorter == sequences_upto(n - 1, m)
       IN  shorter \cup {Append(s, i) : s \in shorter, i \in 1..m}

\* the texts of at most n sentences
texts_upto(n) ==
  { join([i \in 1..Len(s) |-> PureSentences[s[i]]], <<" ">>) :
      s \in sequences_upto(n, Len(PureSentences)) }

\* the queries given to keyword retrieval and to answer synthesis
PureQueries ==
  { <<>>, <<" "," ">>, <<"h","i">>, <<"a","t">>, <<"z","e","b","r","a">>, <<"c","a","t","s">>, <<"D","o","g","s">>, <<"c","a","t","s"," ","d","o","g","s">>,
    <<"d","o","g","s"," ","b","a","r","k">>, <<"b","i","r","d","s"," ","s","i","n","g"," ","c","a","t","s">>, <<"b","a","r","k"," ","a","t"," ","c","a","t","s","!">>,
    <<"h","o","w"," ","c","a","t","s"," ","p","u","r","r">>, <<" ","h","o","w"," ","c","a","t","s"," ","p","u","r","r">>, <<"H","o","w"," ","d","o"," ","d","o","g","s"," ","b","a","r","k">>, <<"s","h","o","w"," ","h","o","w">>,
    <<"l","i","s","t"," ","c","a","t","s">>, <<"w","h","a","t"," ","i","s"," ","a"," ","l","i","s","t">>, <<"W","h","a","t"," ","i","s"," ","c","a","t","s">>, <<"d","e","f","i","n","e"," ","d","o","g","s">>,
    <<"w","h","a","t"," ","t","y","p","e","s">>, <<"h","o","w"," ","t","o"," ","d","e","f","i","n","e"," ","k","i","n","d","s">> }

\* the name NamedTemporaryFile gives the copy of the upload (app.py:44-46)
tmp_file_path(name) ==
  LET parts == split(name, <<".">>) IN <<"/","t","m","p","/","t","m","p","k","3","v","9","x","2","q","a">> \o <<".">> \o parts[Len(parts)]

(***************************************************************************)
(* State                                                                   *)
(***************************************************************************)
MaxTurns == 2
MaxSentences == 4

VARIABLES
  chatbot,             \* st.session_state.chatbot, or the caller's engine
  messages,            \* st.session_state.messages
  document_processed,  \* st.session_state.document_processed
  pc,                  \* where the running call stands
  file_path,           \* process_document's argument
  file,                \* what the file at file_path holds
  file_extension,      \* process_document's local
  text,                \* process_document's local
  chunks,              \* the chunk sequence returned, None before
  self,                \* the ChatBot under construction
  error,               \* the exception that left the call, None if none
  steps,               \* the steps of process_document taken so far
  built,               \* the engine as its constructor left it
  answers,             \* the first answer the engine gave to each question
  last,                \* the last get_response call, what it returned, and
                       \* whether its question had been asked before
  displaced,           \* the engine and the number of messages that the
                       \* assignment just made has replaced
  query,               \* input of the retrieval and synthesis functions
  document,            \* input of the retrieval function (full_text)
  retrieved,           \* what keyword retrieval computed for them
  formatted            \* what answer synthesis computed for them

session == <<chatbot, messages, document_processed>>
processing == <<file_path, file, file_extension, text, chunks, steps>>
calls == <<built, answers, last, displaced>>
pure == <<query, document, retrieved, formatted>>
vars == <<chatbot, messages, document_processed, pc, file_path, file, file_extension,
          text, chunks, self, error, steps, built, answers, last, displaced, query,
          document, retrieved, formatted>>

NotAsked == <<"not asked">>

InitSession ==
  /\ chatbot = None
  /\ messages = <<>>
  /\ document_processed = FALSE
  /\ file_path = NoStr
  /\ file = None
  /\ file_extension = NoStr
  /\ text = NoStr
  /\ chunks = NoChunks
  /\ self = None
  /\ error = None
  /\ steps = <<>>
  /\ built = None
  /\ answers = [q \in Questions |-> NotAsked]
  /\ last = None
  /\ displaced = None
  /\ retrieved = None
  /\ formatted = None

Init ==
  /\ InitSession
  /\ pc = "idle"
  /\ query = NoStr
  /\ document = NoStr

(***************************************************************************)
(* DocumentProcessor.process_document, step by step                        *)
(***************************************************************************)
fail(e) ==
  /\ pc' = "except"
  /\ error' = e

begin_process(path, content) ==
  /\ file_path' = path
  /\ file' = content
  /\ file_extension' = NoStr
  /\ text' = NoStr
  /\ chunks' = NoChunks
  /\ steps' = <<>>
  /\ error' = None
  /\ pc' = "resolve"

\* process_document called on a path
CallProcess(path, content) ==
  /\ pc = "idle"
  /\ begin_process(path, content)
  /\ UNCHANGED <<session, self, calls, pure>>

\* document_processor.py:52-62, the extension and the branch it selects
Resolve ==
  /\ pc = "resolve"
  /\ file_extension' = extension_of(file_path)
  /\ steps' = Append(steps, "resolve")
  /\ IF extension_of(file_path) \in SupportedExtensions
     THEN pc' = "extract" /\ error' = error
     ELSE fail([type |-> "ValueError", where |-> "Unsupported file type"])
  /\ UNCHANGED <<session, file_path, file, text, chunks, self, calls, pure>>

\* document_processor.py:55-60, the extractor of the branch
Extract ==
  /\ pc = "extract"
  /\ steps' = Append(steps, "extract")
  /\ IF extract_text(file).raised
     THEN fail(extract_text(file).value) /\ text' = text
     ELSE pc' = "check" /\ text' = extract_text(file).value /\ error' = error
  /\ UNCHANGED <<session, file_path, file, file_extension, chunks, self, calls, pure>>

\* CheckText without the test for a blank text
CheckText_lenient ==
  /\ pc = "check"
  /\ steps' = Append(steps, "check")
  /\ pc' = "split"
  /\ UNCHANGED <<session, file_path, file, file_extension, text, chunks, self, error,
                 calls, pure>>

\* document_processor.py:64-65
CheckText ==
  /\ pc = "check"
  /\ steps' = Append(steps, "check")
  /\ IF strip(text) = <<>>
     THEN fail([type |-> "ValueError", where |-> "No text content found in the document"])
     ELSE pc' = "split" /\ error' = error
  /\ UNCHANGED <<session, file_path, file, file_extension, text, chunks, self, calls, pure>>

\* document_processor.py:68-71
SplitText ==
  /\ pc = "split"
  /\ steps' = Append(steps, "split")
  /\ chunks' = split_text(text)
  /\ pc' = "returned"
  /\ UNCHANGED <<session, file_path, file, file_extension, text, self, error, calls, pure>>

\* the caller of process_document has the chunks
Return ==
  /\ pc = "returned"
  /\ pc' = "idle"
  /\ UNCHANGED <<session, processing, self, error, calls, pure>>

\* the exception reaches the caller: app.py:65-67 reports it
Except ==
  /\ pc = "except"
  /\ pc' = "idle"
  /\ self' = None
  /\ UNCHANGED <<session, processing, error, calls, pure>>

(***************************************************************************)
(* ChatBot.__init__, step by step                                          *)
(***************************************************************************)
\* ChatBot(document_chunks) called on a chunk sequence: chatbot.py:13-14
New(document_chunks) ==
  /\ pc = "idle"
  /\ self' = new_chatbot(document_chunks)
  /\ pc' = "load_model"
  /\ error' = None
  /\ answers' = [q \in Questions |-> NotAsked]
  /\ last' = None
  /\ UNCHANGED <<session, processing, built, displaced, pure>>

\* chatbot.py:17
LoadModel ==
  /\ pc = "load_model"
  /\ \E m \in LoadOutcomes :
       IF m = LoadError
       THEN fail([type |-> "OSError", where |-> "SentenceTransformer"]) /\ self' = self
       ELSE pc' = "vector_store" /\ self' = setattr(self, "embedding_model", m)
            /\ error' = error
  /\ UNCHANGED <<session, processing, calls, pure>>

\* chatbot.py:19-23
VectorStore ==
  /\ pc = "vector_store"
  /\ IF init_vector_search(self).raised
     THEN fail([type |-> "Exception", where |-> "_create_vector_store"]) /\ self' = self
     ELSE pc' = "constructed" /\ self' = init_vector_search(self).value /\ error' = error
  /\ UNCHANGED <<session, processing, calls, pure>>

\* the caller binds the constructed engine
Bind ==
  /\ pc = "constructed"
  /\ chatbot' = self
  /\ built' = self
  /\ self' = None
  /\ pc' = "idle"
  /\ UNCHANGED <<messages, document_processed, processing, error, answers, last,
                 displaced, pure>>

\* get_response called on the engine
Ask(question) ==
  /\ pc = "idle"
  /\ chatbot # None
  /\ LET r == get_response(chatbot, question)
     IN  /\ chatbot' = r.self
         /\ last' = [question |-> question, raised |-> r.raised, answer |-> r.value,
                     exception |-> r.exception, content |-> r.content,
                     synthesized |-> r.synthesized,
                     repeat |-> answers[question] # NotAsked]
         /\ answers' = IF answers[question] = NotAsked
                       THEN [answers EXCEPT ![question] = r.value]
                       ELSE answers
  /\ UNCHANGED <<messages, document_processed, pc, processing, self, error, built,
                 displaced, pure>>

(***************************************************************************)
(* main (app.py), one script run at a time                                 *)
(***************************************************************************)
\* app.py:39-50: Process Document pressed on an uploaded file
ClickProcess(upload) ==
  /\ pc = "idle"
  /\ begin_process(tmp_file_path(upload.name), upload.content)
  /\ UNCHANGED <<session, self, calls, pure>>

\* Construct writing the new chunks into the engine of the session
Construct_in_place ==
  /\ pc = "returned"
  /\ chunks # <<>>
  /\ pc' = "load_model"
  /\ self' = new_chatbot(chunks)
  /\ chatbot' = IF chatbot = None THEN chatbot
                ELSE setattr(setattr(chatbot, "document_chunks", chunks),
                             "full_text", join(chunks, <<" ">>))
  /\ UNCHANGED <<messages, document_processed, processing, error, calls, pure>>

\* app.py:52-56: the preview of chunks[0], then the constructor is entered
Construct ==
  /\ pc = "returned"
  /\ IF chunks = <<>>
     THEN fail([type |-> "IndexError", where |-> "main"]) /\ self' = self
     ELSE pc' = "load_model" /\ self' = new_chatbot(chunks) /\ error' = error
  /\ UNCHANGED <<session, processing, calls, pure>>

\* app.py:56-58
Assign ==
  /\ pc = "constructed"
  /\ chatbot' = self
  /\ document_processed' = TRUE
  /\ messages' = <<>>
  /\ displaced' = [engine |-> chatbot, messages |-> Len(messages)]
  /\ self' = None
  /\ pc' = "unlink"
  /\ UNCHANGED <<processing, error, built, answers, last, pure>>

\* app.py:61-63: os.unlink removes the copy, or raises
Unlink ==
  /\ pc = "unlink"
  /\ \E removed \in BOOLEAN :
       IF removed
       THEN pc' = "idle" /\ error' = error
       ELSE fail([type |-> "OSError", where |-> "os.unlink"])
  /\ displaced' = None
  /\ UNCHANGED <<session, processing, self, built, answers, last, pure>>

\* app.py:70-90
Chat(prompt) ==
  /\ pc = "idle"
  /\ document_processed
  /\ chatbot # None
  /\ Len(messages) < 2 * MaxTurns
  /\ LET r == get_response(chatbot, prompt)
     IN  /\ chatbot' = r.self
         /\ messages' = messages \o <<[role |-> "user", content |-> prompt],
                                      [role |-> "assistant", content |-> r.value]>>
  /\ UNCHANGED <<document_processed, pc, processing, self, error, calls, pure>>

Next ==
  \/ \E upload \in Uploads : ClickProcess(upload)
  \/ Resolve
  \/ Extract
  \/ CheckText
  \/ SplitText
  \/ Construct
  \/ LoadModel
  \/ VectorStore
  \/ Assign
  \/ Unlink
  \/ Except
  \/ \E prompt \in Prompts : Chat(prompt)

Spec == Init /\ [][Next]_vars

\* process_document called directly
NextProcessor ==
  \/ \E path \in Paths, content \in Contents : CallProcess(path, content)
  \/ Resolve
  \/ Extract
  \/ CheckText
  \/ SplitText
  \/ Return
  \/ Except

SpecProcessor == Init /\ [][NextProcessor]_vars

\* ChatBot constructed and asked directly
NextEngine ==
  \/ \E document_chunks \in ChunkSequences : New(document_chunks)
  \/ LoadModel
  \/ VectorStore
  \/ Bind
  \/ Except
  \/ \E question \in Questions : Ask(question)

SpecEngine == Init /\ [][NextEngine]_vars

(***************************************************************************)
(* Keyword retrieval and answer synthesis applied to bounded inputs        *)
(***************************************************************************)
InitPure ==
  /\ InitSession
  /\ pc = "given"
  /\ query \in PureQueries
  /\ document \in texts_upto(MaxSentences)

\* _keyword_search_with_context(query.lower()) on full_text = document
Retrieve ==
  /\ pc = "given"
  /\ retrieved' =
       [scores |-> [i \in 1..Len(sentences_of(document)) |->
                      sentence_scores(lower(query), document)[i].score],
        selected |-> selected_of(lower(query), document),
        relevant |-> relevant_sentences_of(lower(query), document),
        content |-> _keyword_search_with_context(lower(query), document)]
  /\ pc' = "retrieved"
  /\ UNCHANGED <<session, processing, self, error, calls, query, document, formatted>>

\* _format_answer(query, content) on the content retrieved
Format ==
  /\ pc = "retrieved"
  /\ formatted' = [intent |-> intent_of(query),
                   answer |-> _format_answer(query, retrieved.content)]
  /\ pc' = "formatted"
  /\ UNCHANGED <<session, processing, self, error, calls, query, document, retrieved>>

NextPure ==
  \/ Retrieve
  \/ Format

SpecPure == InitPure /\ [][NextPure]_vars

(***************************************************************************)
(* Properties                                                              *)
(***************************************************************************)
Range(s) == {s[i] : i \in 1..Len(s)}

\* the engine ChatBot.__init__ leaves for a chunk sequence and a loaded model
engine_of(document_chunks, model) ==
  init_vector_search(setattr(new_chatbot(document_chunks), "embedding_model", model)).value

\* the vector branch of the engine yields a result for the question
vector_succeeds(engine, question) ==
  /\ hasattr(engine, "index")
  /\ engine.use_vector_search
  /\ ~encode(engine.embedding_model, <<question>>).raised

\* C1: get_response never raises and returns the error message when an
\* exception occurred in retrieval or synthesis, the apology when the
\* synthesized answer is empty or shorter than 5 characters once trimmed, and
\* otherwise the synthesized answer unchanged.
C1_ResponseIsOneOfThree ==
  last # None =>
    LET found == _find_relevant_content(chatbot, last.question)
        answer == _format_answer(last.question, found.value)
    IN  /\ ~last.raised
        /\ last.exception = found.raised
        /\ IF found.raised THEN last.answer = ErrorMessage
           ELSE IF Len(strip(answer)) < 5 THEN last.answer = Apology
           ELSE last.answer = answer /\ Len(strip(last.answer)) >= 5

\* C1 witness: one engine has answered a question with the apology, its
\* synthesized answer being "Hi.", and a question that is no str with the
\* error message.
C1_Witness ==
  /\ last # None
  /\ last.synthesized = <<"H","i",".">>
  /\ last.answer = Apology
  /\ answers[NoStr] = ErrorMessage

\* C2: for a str question the content is the vector search result exactly when
\* vector search is enabled and encoding and search raised nothing, the result
\* then being k >= 1 chunks; in every other case it is what keyword retrieval
\* returns for the question; no exception leaves _find_relevant_content.
C2_KeywordFallback ==
  (last # None /\ is_str(last.question)) =>
    LET q == last.question
        k == min(3, Len(chatbot.document_chunks))
    IN  /\ ~last.exception
        /\ IF vector_succeeds(chatbot, q)
           THEN LET ids == index_search(chatbot.index,
                                        encode(chatbot.embedding_model, <<q>>).value[1], k)
                IN  /\ Len(ids) = k
                    /\ k >= 1
                    /\ last.content =
                         join([r \in 1..k |-> chatbot.document_chunks[ids[r] + 1]], <<" ">>)
           ELSE last.content = _keyword_search_with_context(lower(q), chatbot.full_text)

\* C2 witness: vector search is enabled, the encoding of the question raised,
\* and the question was answered from keyword retrieval.
C2_Witness ==
  /\ last # None
  /\ is_str(last.question)
  /\ chatbot.use_vector_search
  /\ encode(chatbot.embedding_model, <<last.question>>).raised
  /\ last.content # NoStr
  /\ ~last.exception

\* C3: an engine has vector search enabled only if it has more than one chunk
\* and its index holds one embedding per chunk; with at most one chunk, or when
\* embedding the chunks raised, it is constructed with vector search disabled,
\* and no exception of _create_vector_store leaves the constructor.
C3_VectorSearchOnlyWithIndex ==
  /\ \A e \in {chatbot, self} :
       (e # None /\ hasattr(e, "use_vector_search")) =>
         /\ e.use_vector_search =>
              /\ Len(e.document_chunks) > 1
              /\ hasattr(e, "index")
              /\ Len(e.index.vectors) = Len(e.document_chunks)
         /\ Len(e.document_chunks) <= 1 => ~e.use_vector_search
         /\ encode(e.embedding_model, e.document_chunks).raised => ~e.use_vector_search
  /\ pc = "constructed" => hasattr(self, "use_vector_search")
  /\ error # None => error.where # "_create_vector_store"

\* C3 witness: an engine of several chunks whose embedding raised is in the
\* caller's hands with vector search disabled.
C3_Witness ==
  /\ chatbot # None
  /\ Len(chatbot.document_chunks) > 1
  /\ encode(chatbot.embedding_model, chatbot.document_chunks).raised
  /\ ~chatbot.use_vector_search
  /\ error = None

C4_Coherent ==
  chatbot # None =>
    /\ \E upload \in Uploads :
         /\ upload.content.readable
         /\ chatbot.document_chunks = split_text(upload.content.text)
    /\ \E model \in Encoders : chatbot = engine_of(chatbot.document_chunks, model)

C4_Swap ==
  /\ (pc = "constructed" /\ pc' # "constructed") =>
       /\ chatbot'.document_chunks = split_text(file.text)
       /\ \E model \in Encoders : chatbot' = engine_of(split_text(file.text), model)
       /\ messages' = <<>>
       /\ document_processed'
  /\ chatbot' # chatbot => pc = "constructed"

\* C4: the engine of the session always has chunks, full text, index and flag
\* built from one and the same document; it changes only in the step that ends
\* a document's processing, which installs the engine built from the chunks of
\* the document just processed and empties the conversation history.
C4_EngineReplacedAsAUnit == [](C4_Coherent) /\ [][C4_Swap]_vars

\* C4 witness: the engine of the solar document, with a conversation of two
\* turns, has just been replaced by the engine of the pets document, with its
\* index, and the conversation is empty.
C4_Witness ==
  /\ pc = "unlink"
  /\ displaced.engine # None
  /\ displaced.engine.document_chunks = <<Solar>>
  /\ displaced.messages = 4
  /\ chatbot.document_chunks = <<CatsParagraph, DogsParagraph>>
  /\ chatbot.use_vector_search
  /\ messages = <<>>
  /\ file.text = Pets

\* C5: get_response leaves the engine as its constructor built it, and a
\* question asked again gets the answer it got the first time, whatever was
\* asked in between.
C5_QueriesLeaveEngineUnchanged ==
  /\ chatbot = built
  /\ last # None => last.answer = answers[last.question]

\* C5 witness: on an engine with vector search enabled every question has been
\* asked, and the last call repeated one of them.
C5_Witness ==
  /\ last # None
  /\ last.repeat
  /\ chatbot.use_vector_search
  /\ \A q \in Questions : answers[q] # NotAsked

\* what C6 says the branch of _format_answer is
claimed_intent(q) ==
  LET query_lower == lower(q)
  IN  IF any_in(ListWords, query_lower) THEN "list"
      ELSE IF any_in(DefinitionWords, query_lower) THEN "definition"
      ELSE IF startswith(strip(query_lower), <<"h","o","w">>) THEN "process"
      ELSE "generic"

\* C6: _format_answer takes the first matching branch in the order list,
\* definition, process, generic, a query being a process query when it starts
\* with "how" after surrounding whitespace is trimmed.
C6_IntentPriority ==
  formatted # None => formatted.intent = claimed_intent(query)

\* no keyword of the query occurs in any sentence of the document
no_keyword_match(q, full_text) ==
  \A i \in 1..Len(sentences_of(full_text)) :
    ~any_in(query_words_of(lower(q)), lower(sentences_of(full_text)[i]))

\* C7: when no keyword of the query matches anywhere in the document, an empty
\* keyword set included, keyword retrieval selects no sentence and returns the
\* first 1000 characters of full_text.
C7_NoMatchGivesFirstThousand ==
  (retrieved # None /\ no_keyword_match(query, document)) =>
    /\ retrieved.selected = <<>>
    /\ retrieved.content = slice_to(document, 1000)

solar_case ==
  /\ last # None
  /\ chatbot.document_chunks = <<Solar>>
  /\ last.question = SolarQuestion

\* C8 as stated: on the solar document the question about types is a list
\* question, the "include" text is split into synthesized bullets, and the
\* answer is those items.
C8_SolarBullets ==
  solar_case =>
    /\ intent_of(last.question) = "list"
    /\ list_items_of(last.content, lower(last.question)) # <<>>
    /\ last.answer = join(list_items_of(last.content, lower(last.question)), <<"\n">>)

\* C8 amended: on the solar document the question about types is a list
\* question; no bullet is synthesized, the content holding no colon; the answer
\* is the first sentence with a comma and "include", verbatim, which names the
\* three items.
C8_SolarSentence ==
  solar_case =>
    /\ intent_of(last.question) = "list"
    /\ ~contains(<<":">>, last.content)
    /\ list_items_of(last.content, lower(last.question)) = <<>>
    /\ last.answer =
         <<"C","o","m","m","o","n"," ","t","y","p","e","s"," ","i","n","c","l","u","d","e"," ",
      "m","o","n","o","c","r","y","s","t","a","l","l","i","n","e",","," ","p","o","l","y",
      "c","r","y","s","t","a","l","l","i","n","e",","," ","a","n","d"," ","t","h","i","n",
      "-","f","i","l","m"," ","p","a","n","e","l","s">>

\* C8 witness: the solar question has been answered from the solar document.
C8_Witness ==
  /\ solar_case
  /\ last.answer # Apology
  /\ contains(<<"m","o","n","o","c","r","y","s","t","a","l","l","i","n","e",","," ","p","o","l","y",
      "c","r","y","s","t","a","l","l","i","n","e",","," ","a","n","d"," ","t","h","i","n",
      "-","f","i","l","m"," ","p","a","n","e","l","s">>, last.answer)

\* C9: process_document resolves the extension, extracts, checks for text and
\* splits, in this order; extraction is attempted only for a known extension,
\* splitting only after an extraction that yielded text that is not blank; a
\* failure leaves as an exception with no chunks returned, and chunks are
\* returned only when every step succeeded.
C9_StepsInOrder ==
  steps # <<>> =>
    LET all == <<"resolve", "extract", "check", "split">>
        known == extension_of(file_path) \in SupportedExtensions
        nonblank == file.readable /\ strip(file.text) # <<>>
    IN  /\ Len(steps) <= 4
        /\ steps = SubSeq(all, 1, Len(steps))
        /\ Len(steps) >= 2 => known
        /\ Len(steps) >= 3 => file.readable
        /\ Len(steps) >= 4 => nonblank
        /\ chunks # NoChunks => (Len(steps) = 4 /\ error = None /\ known /\ nonblank)
        /\ error # None => (chunks = NoChunks /\ pc \in {"except", "idle"})
        /\ pc = "idle" => /\ (error # None) = ~(known /\ nonblank)
                          /\ (error = None) = (chunks # NoChunks)

\* C9 witness: a call on a readable file of a known extension whose text is
\* blank has ended in an exception after the check, without splitting.
C9_Witness ==
  /\ pc = "idle"
  /\ steps = <<"resolve", "extract", "check">>
  /\ file.readable
  /\ error # None
  /\ chunks = NoChunks

\* C10: the sentences keyword retrieval selects are the at most 3 best among
\* those of score above 0, by score descending and, at equal score, the earlier
\* sentence first; the assembled result holds at most 4 sentences.
C10_TopThreeStable ==
  retrieved # None =>
    LET score(i) == retrieved.scores[i + 1]
        positive == {i \in 0..(Len(retrieved.scores) - 1) : score(i) > 0}
        ahead(i, j) == score(i) > score(j) \/ (score(i) = score(j) /\ i < j)
        selected == retrieved.selected
    IN  /\ Len(selected) = min(3, Cardinality(positive))
        /\ Range(selected) \subseteq positive
        /\ \A r \in 1..(Len(selected) - 1) : ahead(selected[r], selected[r + 1])
        /\ \A j \in positive \ Range(selected) :
             \A r \in 1..Len(selected) : ahead(selected[r], j)
        /\ selected # <<>> =>
             /\ Len(sentences_of(retrieved.content)) <= 4
             /\ retrieved.content =
                  join(slice_to(retrieved.relevant, 4), <<"."," ">>) \o <<".">>

\* C10 witness: four sentences score alike above 0, the first three are
\* selected in their order, and more than 4 sentences were gathered.
C10_Witness ==
  /\ retrieved # None
  /\ Len(retrieved.scores) = 4
  /\ \A i \in 1..4 : retrieved.scores[i] = retrieved.scores[1] /\ retrieved.scores[i] > 0
  /\ retrieved.selected = <<0, 1, 2>>
  /\ Len(retrieved.relevant) > 4
=============================================================================
